---- MODULE Spec2Model ----
(***************************************************************************)
(* A model of edward's wake_sleep inference (edward/inferences/            *)
(* wake_sleep.py) and of its mean-field variational families               *)
(* (edward/variationals.py).                                               *)
(*                                                                         *)
(* wake_sleep is modelled as the call (argument normalisation, the two     *)
(* accumulators, the base scope), one step per sample iteration of its     *)
(* loop, and the closing step that averages, adds the regularisation       *)
(* penalty, splits var_list and differentiates.  The variational families  *)
(* are modelled as one object and one action per method.                   *)
(***************************************************************************)
EXTENDS Integers, Sequences, FiniteSets, TLC

\* ------------------------------------------------------------------ bounds
MaxLatents == 2     \* latent variables the generative model holds
MaxSamples == 2     \* largest n_samples
MaxVarList == 2     \* longest var_list
MaxCalls   == 2     \* wake_sleep calls made on the one graph
MaxRegs    == 1     \* regularisation terms registered on the graph
MaxDim     == 3     \* largest num_vars a family is built with
MaxK       == 2     \* largest K of the Dirichlet and the mixed family
MaxD       == 2     \* largest D of the mixed family
PUnit      == 3     \* probabilities are counted in 1/PUnit: PUnit stands for 1.0

LatentIds  == 1..MaxLatents
ScaleVals  == {2}              \* multipliers a scale map holds
RegVals    == {3}              \* values of registered regularisation terms
Phases     == {"sleep", "wake"}

\* ------------------------------------------------------- the graph's nodes
Z(k)   == <<"z", k>>           \* latent variable k of the model p
Q(k)   == <<"qz", k>>          \* its approximating distribution
X      == <<"x", 0>>           \* the observed random variable
QX     == <<"qx", 0>>          \* a random variable bound to it as data
H      == <<"h", 0>>           \* a hidden tensor of the inference network
REG    == <<"reg", 0>>         \* the registered regularisation terms
Lam(k) == <<"lambda", k>>      \* trainable: parameter of Q(k)
Tied   == <<"tied", 0>>        \* trainable: feeds every Q(k) through H, and X
Theta  == <<"theta", 0>>       \* trainable: parameter of every Z(k) and of X
W      == <<"w", 0>>           \* trainable: appears in a regulariser only

TrainableVars == {Lam(k) : k \in LatentIds} \cup {Tied, Theta, W}

\* The edges of the computation graph: <<a, b>> when b is computed from a.
GraphEdges ==
    {<<Lam(k), Q(k)>> : k \in LatentIds}
    \cup {<<Tied, H>>, <<Tied, X>>, <<Theta, X>>, <<W, REG>>}
    \cup {<<H, Q(k)>> : k \in LatentIds}
    \cup {<<Theta, Z(k)>> : k \in LatentIds}
    \cup {<<Z(k), X>> : k \in LatentIds}

Children(S) == {e[2] : e \in {f \in GraphEdges : f[1] \in S}}

RECURSIVE Reach(_, _)
Reach(frontier, seen) ==
    LET new == Children(frontier) \ seen
    IN  IF new = {} THEN seen ELSE Reach(new, seen \cup new)

\* edward.util.get_descendants: the nodes of `collection` x leads to.
get_descendants(x, collection) == Reach({x}, {}) \cap collection

\* ------------------------------------------------------------ small helpers
RECURSIVE SumSeq(_)
SumSeq(q) == IF q = <<>> THEN 0 ELSE Head(q) + SumSeq(Tail(q))

RECURSIVE FilterSeq(_, _)
FilterSeq(q, S) ==
    IF q = <<>> THEN <<>>
    ELSE IF Head(q) \in S THEN <<Head(q)>> \o FilterSeq(Tail(q), S)
         ELSE FilterSeq(Tail(q), S)

Range(q) == {q[i] : i \in DOMAIN q}

\* Sequences without repetition: the orders a dict of these keys iterates in.
InjSeqs(S) ==
    UNION {{q \in [1..n -> S] : \A i, j \in 1..n : i # j => q[i] # q[j]} :
           n \in 0..Cardinality(S)}

SeqsUpTo(S, n) == UNION {[1..m -> S] : m \in 0..n}

\* -------------------------------------------------------------------- state
VARIABLES
    pc,             \* "idle", "loop" (in the sample loop), "done" (returned)
    calls,          \* wake_sleep calls started so far
    names_in_use,   \* the graph's name registry (tf.Graph.unique_name)
    reg_losses,     \* the REGULARIZATION_LOSSES collection
    latent_vars,    \* the binding z -> qz, as its keys in iteration order
    data,           \* the data binding, in iteration order
    n_samples, phase_q, scale,
    s,              \* iterations of the loop completed
    base_scope,
    p_log_prob, q_log_prob,
    q_terms, p_terms,  \* history: the terms added to q_log_prob[i], p_log_prob[i]
    copies,         \* history: the copy() calls of this wake_sleep call
    scopes,         \* history: the sub-phase scopes of all calls on the graph
    reg_seen,       \* history: reg_losses as it was when the call started
    var_list, q_vars, p_vars,
    loss_p, loss_q, reg_penalty,
    grads_and_vars,
    fam,            \* the variational family object
    built,          \* history: its num_vars and num_params when __init__ returned
    given,          \* history: the params[0] last handed to set_params
    last            \* history: the last method call and how it ended

famVars == <<fam, built, given, last>>

wsVars == <<pc, calls, names_in_use, reg_losses, latent_vars, data, n_samples,
            phase_q, scale, s, base_scope, p_log_prob, q_log_prob, q_terms,
            p_terms, copies, scopes, reg_seen, var_list, q_vars, p_vars,
            loss_p, loss_q, reg_penalty, grads_and_vars>>

\* ------------------------------------------------- tf.Graph.unique_name
NameOf(stem, i) == IF i = 0 THEN stem ELSE stem \o "_" \o ToString(i)

RECURSIVE FreeIndex(_, _, _)
FreeIndex(names, stem, i) ==
    IF NameOf(stem, i) \in DOMAIN names THEN FreeIndex(names, stem, i + 1) ELSE i

NameGet(names, key) == IF key \in DOMAIN names THEN names[key] ELSE 0

Mark(names, key, n) == [k \in DOMAIN names \cup {key} |-> IF k = key THEN n ELSE names[k]]

\* The name unique_name(stem) returns, and the registry after it.
UniqueIndex(names, stem) ==
    LET i == NameGet(names, stem)
    IN  IF i = 0 THEN 0 ELSE FreeIndex(Mark(names, stem, i + 1), stem, i)

unique_name(names, stem) == NameOf(stem, UniqueIndex(names, stem))

names_after(names, stem) ==
    LET i == NameGet(names, stem)
        m == Mark(names, stem, i + 1)
    IN  IF i = 0 THEN m ELSE Mark(m, unique_name(names, stem), 1)

\* ------------------------------------------------------------ the inputs
PH == <<"placeholder", 0>>     \* an observed tensor that is no random variable

\* One data binding x -> qx: whether x, and what is bound to it, is a RandomVariable.
DataBinding(x, x_rv, qx_rv) == [x |-> x, x_rv |-> x_rv, qx_rv |-> qx_rv]

DataInputs ==
    {<<>>, <<DataBinding(X, TRUE, TRUE)>>, <<DataBinding(X, TRUE, FALSE)>>,
     <<DataBinding(PH, FALSE, FALSE)>>}

LatentInputs == InjSeqs(LatentIds)

\* The variables a scale map of this call may name.
ScaleKeys(lv, dt) ==
    {Z(lv[j]) : j \in DOMAIN lv} \cup {dt[j].x : j \in {i \in DOMAIN dt : dt[i].x_rv}}

ScaleInputs(lv, dt) == UNION {[K -> ScaleVals] : K \in SUBSET ScaleKeys(lv, dt)}

VarListInputs == SeqsUpTo(TrainableVars, MaxVarList)

\* scale.get(key, 1.0)
ScaleGet(sc, key) == IF key \in DOMAIN sc THEN sc[key] ELSE 1

\* ------------------------------------------- one iteration of the sample loop
None == <<"None">>

\* x.value of the copy of `what` made under `scope`; an observed value.
Value(what, scope) == <<"value", what, scope>>
Observed(x) == <<"observed", x>>

\* The value dist.log_prob returns at the draw of iteration e: it differs from
\* one distribution to the next and from one draw to the next.
LogDensity(dist, e) ==
    -((IF dist[1] = "qz" THEN 2 * dist[2]
       ELSE IF dist[1] = "z" THEN 2 * dist[2] + 1 ELSE 1) + e)

\* One scale * log_prob term: of `dist`, at the value `at` (held fixed when
\* `stop`), scaled by the multiplier of `key`, added in sub-phase `sub`.
Term(dist, at, stop, mult, e, sub) ==
    [dist |-> dist, at |-> at, stop |-> stop, mult |-> mult,
     val |-> LogDensity(dist, e), sub |-> sub]

Copy(what, swap, scope, sub, i) ==
    [what |-> what, swap |-> swap, scope |-> scope, sub |-> sub, s |-> i]

TermValue(t) == t.mult * t.val

RECURSIVE SumTerms(_)
SumTerms(ts) == IF ts = <<>> THEN 0 ELSE TermValue(Head(ts)) + SumTerms(Tail(ts))

\* The bindings of `dt` whose key is a RandomVariable, in order.
RECURSIVE RvData(_)
RvData(dt) ==
    IF dt = <<>> THEN <<>>
    ELSE IF Head(dt).x_rv THEN <<Head(dt)>> \o RvData(Tail(dt)) ELSE RvData(Tail(dt))

RECURSIVE RvRvData(_)
RvRvData(dt) ==
    IF dt = <<>> THEN <<>>
    ELSE IF Head(dt).x_rv /\ Head(dt).qx_rv THEN <<Head(dt)>> \o RvRvData(Tail(dt))
         ELSE RvRvData(Tail(dt))

\* dict_swap (lines 84-91): x -> the value of a copy of qx, or qx itself.
DictSwap(dt, scope) ==
    [x \in {dt[j].x : j \in {i \in DOMAIN dt : dt[i].x_rv}} |->
        LET b == CHOOSE b \in Range(dt) : b.x = x
        IN  IF b.qx_rv THEN Value(QX, scope) ELSE Observed(x)]

\* q_dict_swap (lines 94-98): dict_swap and z -> the value of the copy of qz.
QDictSwap(lv, dt, scope) ==
    LET ds == DictSwap(dt, scope)
        zs == {Z(lv[j]) : j \in DOMAIN lv}
    IN  [k \in DOMAIN ds \cup zs |->
            IF k \in zs THEN Value(Q(k[2]), scope) ELSE ds[k]]

\* p_dict_swap (lines 119-123): dict_swap and qz -> the value of the copy of z.
PDictSwap(lv, dt, scope_q, scope_p) ==
    LET ds == DictSwap(dt, scope_q)
        qs == {Q(lv[j]) : j \in DOMAIN lv}
    IN  [k \in DOMAIN ds \cup qs |->
            IF k \in qs THEN Value(Z(k[2]), scope_p) ELSE ds[k]]

\* The variable z holds after the loops of lines 95, 105 and 120 have run:
\* the last key of latent_vars.
LeakedZ(lv) == Z(lv[Len(lv)])

\* QSampleTerms with the test of line 99 inverted.
QSampleTermsInverted(lv, dt, sc, ph, scope, e) ==
    IF ph = "sleep"
    THEN [j \in DOMAIN lv |->
            Term(Q(lv[j]), QDictSwap(lv, dt, scope)[Z(lv[j])], TRUE,
                 ScaleGet(sc, Z(lv[j])), e, "q")]
    ELSE <<>>

\* Lines 95-103: the terms of log q(z) at the draw from q (wake).
QSampleTerms(lv, dt, sc, ph, scope, e) ==
    IF ph # "sleep"
    THEN [j \in DOMAIN lv |->
            Term(Q(lv[j]), QDictSwap(lv, dt, scope)[Z(lv[j])], TRUE,
                 ScaleGet(sc, Z(lv[j])), e, "q")]
    ELSE <<>>

\* Lines 105-114: the terms of log p(x, z) at the draw from q.
PTerms(lv, dt, sc, scope, e) ==
    [j \in DOMAIN lv |->
        Term(Z(lv[j]), QDictSwap(lv, dt, scope)[Z(lv[j])], FALSE,
             ScaleGet(sc, Z(lv[j])), e, "q")]
    \o [j \in DOMAIN RvData(dt) |->
        Term(RvData(dt)[j].x, QDictSwap(lv, dt, scope)[RvData(dt)[j].x], FALSE,
             ScaleGet(sc, RvData(dt)[j].x), e, "q")]

\* Lines 124-128: the terms of log q(z) at the draw from p (sleep).
SleepTerms(lv, dt, sc, ph, scope_q, scope_p, e) ==
    IF ph = "sleep"
    THEN [j \in DOMAIN lv |->
            Term(Q(lv[j]), PDictSwap(lv, dt, scope_q, scope_p)[Q(lv[j])], TRUE,
                 ScaleGet(sc, LeakedZ(lv)), e, "p")]
    ELSE <<>>

\* The copy() calls of one iteration, in the order they are made.
IterCopies(lv, dt, ph, scope_q, scope_p, i) ==
    [j \in DOMAIN RvRvData(dt) |-> Copy(QX, "none", scope_q, "q", i)]
    \o [j \in DOMAIN lv |-> Copy(Q(lv[j]), "none", scope_q, "q", i)]
    \o [j \in DOMAIN lv |-> Copy(Z(lv[j]), "q_dict_swap", scope_q, "q", i)]
    \o [j \in DOMAIN RvData(dt) |-> Copy(RvData(dt)[j].x, "q_dict_swap", scope_q, "q", i)]
    \o (IF ph = "sleep"
        THEN [j \in DOMAIN lv |-> Copy(Z(lv[j]), "none", scope_p, "p", i)]
             \o [j \in DOMAIN lv |-> Copy(Q(lv[j]), "p_dict_swap", scope_p, "p", i)]
        ELSE <<>>)

\* Line 83 and line 118: the scope of a sub-phase.
QScope(names, base) == base \o unique_name(names, "q_sample")

\* PScope without the call of unique_name.
PScopeFixed(names, base) == base \o "p_sample"

PScope(names, base) == base \o unique_name(names, "p_sample")

ScopeRec(c, i, sub, scope) == [call |-> c, s |-> i, sub |-> sub, scope |-> scope]

\* --------------------------------------------------------- the closing step
\* reduce_mean summing without dividing.
reduce_sum_only(q) == [num |-> SumSeq(q), den |-> 1]

\* A number num/den; tf.reduce_mean of a list is its sum over its length.
reduce_mean(q) == [num |-> SumSeq(q), den |-> Len(q)]

\* -mean + penalty, with the nodes the sum was computed from.
Loss(name, mean, penalty, deps) ==
    [name |-> name, num |-> -mean.num + penalty * mean.den, den |-> mean.den,
     deps |-> deps]

\* The nodes a term is computed from: its distribution and, unless the value is
\* held fixed by stop_gradient, the distribution the value was drawn from.
TermDeps(t) ==
    {t.dist} \cup (IF ~t.stop /\ t.at[1] = "value" THEN {t.at[2]} ELSE {})

LossDeps(terms, regs) ==
    UNION {TermDeps(terms[i][j]) : <<i, j>> \in
              {<<i, j>> \in (DOMAIN terms) \X (1..(2 * MaxLatents + 1)) :
                  j \in DOMAIN terms[i]}}
    \cup (IF regs # <<>> THEN {REG} ELSE {})

\* tf.gradients(loss, xs): per x the derivative of loss, None where no path
\* leads from x to loss.
Gradient(loss, x) ==
    IF (Reach({x}, {}) \cup {x}) \cap loss.deps # {}
    THEN <<"d", loss.name, x>> ELSE None

gradients(loss, xs) == [j \in DOMAIN xs |-> Gradient(loss, xs[j])]

zip(a, b) == [j \in DOMAIN a |-> <<a[j], b[j]>>]

\* Lines 145-147.
QVars(vl, lv) ==
    LET q_rvs == {Q(lv[j]) : j \in DOMAIN lv}
        HasQ(v) == Cardinality(get_descendants(v, q_rvs)) # 0
    IN  SelectSeq(vl, HasQ)

\* PVars without its filter: every variable of var_list is taken.
PVarsUnfiltered(vl, qv) == vl

\* Line 149.
PVars(vl, qv) ==
    LET NotQ(v) == v \notin Range(qv)
    IN  SelectSeq(vl, NotQ)

\* GradsAndVars differentiating loss_q for both groups.
GradsAndVarsOneLoss(lq, lp, qv, pv) ==
    zip(gradients(lq, qv), qv) \o zip(gradients(lq, pv), pv)

\* Line 151.
GradsAndVars(lq, lp, qv, pv) ==
    zip(gradients(lq, qv), qv) \o zip(gradients(lp, pv), pv)

\* ---------------------------------------------------- variational families
\* An object of edward/variationals.py.  `set` says whether its parameters
\* (p; a, b; m, s; params; the unconstrained variables) are bound; p holds the
\* probabilities of MFBernoulli; sub the three sub-families of MFMixGaussian.
Object(kind, num_vars, num_params, K, set, sub) ==
    [kind |-> kind, num_vars |-> num_vars, num_params |-> num_params, K |-> K,
     set |-> set, p |-> <<>>, sub |-> sub]

\* Lines 12-14.
Likelihood_init(kind, num_vars) == Object(kind, num_vars, None, 0, FALSE, <<>>)

\* Lines 258-261.
MFBernoulli_init(num_vars) ==
    [Likelihood_init("MFBernoulli", num_vars) EXCEPT !.num_params = num_vars]

\* Lines 302-306.
MFBeta_init(num_vars) ==
    [Likelihood_init("MFBeta", num_vars) EXCEPT !.num_params = 2 * num_vars]

\* Lines 344-348.
MFGaussian_init(num_vars) ==
    [Likelihood_init("MFGaussian", num_vars) EXCEPT !.num_params = 2 * num_vars]

\* Lines 401-405.
PointMass_init(num_vars) ==
    [Likelihood_init("PointMass", num_vars) EXCEPT !.num_params = num_vars]

\* Lines 180-185.
MFDirichlet_init(num_vars, K) ==
    Object("MFDirichlet", num_vars, K * num_vars, K, TRUE, <<>>)

\* Lines 215-220.
MFInvGamma_init(num_vars) ==
    Object("MFInvGamma", num_vars, 2 * num_vars, 0, TRUE, <<>>)

\* Lines 126-140.
MFMixGaussian_init(D, K) ==
    LET dirich == MFDirichlet_init(K, K)
        gauss  == MFGaussian_init(K * D)
        invgam == MFInvGamma_init(K * D)
    IN  Object("MFMixGaussian",
               dirich.num_vars + gauss.num_vars + invgam.num_vars,
               dirich.num_params + gauss.num_params + invgam.num_params,
               K, FALSE,
               [dirich |-> dirich, gauss |-> gauss, invgam |-> invgam])

\* The classes that derive from Likelihood; those that do not.
LikelihoodKinds == {"MFBernoulli", "MFBeta", "MFGaussian", "PointMass"}
PlainKinds      == {"MFMixGaussian", "MFDirichlet", "MFInvGamma"}

\* Every object a constructor call within the bounds returns.
FamilyObjects ==
    {MFBernoulli_init(n) : n \in 1..MaxDim}
    \cup {MFBeta_init(n) : n \in 1..MaxDim}
    \cup {MFGaussian_init(n) : n \in 1..MaxDim}
    \cup {PointMass_init(n) : n \in 1..MaxDim}
    \cup {MFInvGamma_init(n) : n \in 1..MaxDim}
    \cup {MFDirichlet_init(n, K) : n \in 1..MaxDim, K \in 1..MaxK}
    \cup {MFMixGaussian_init(D, K) : D \in 1..MaxD, K \in 1..MaxK}

\* How a method call ends: the value it returns, or the error it raises.
Returned(obj, ret) == [obj |-> obj, outcome |-> "ok", ret |-> ret, branches |-> <<>>]
Raised(obj, err)   == [obj |-> obj, outcome |-> err, ret |-> <<>>, branches |-> <<>>]

\* mapping(x): lines 263-265, 308-311, 350-353, 407-409; the other classes
\* define none.
mapping(obj) ==
    CASE obj.kind = "MFBernoulli" -> Returned(obj, <<"sigmoid(p)">>)
      [] obj.kind = "MFBeta" -> Returned(obj, <<"softplus(alpha)", "softplus(beta)">>)
      [] obj.kind = "MFGaussian" -> Returned(obj, <<"identity(mu)", "softplus(sigma)">>)
      [] obj.kind = "PointMass" -> Returned(obj, <<"transform(params)">>)
      [] OTHER -> Raised(obj, "AttributeError")

\* The vectors of num_vars probabilities set_params of MFBernoulli is handed:
\* mapping builds params[0] with shape [num_vars] (line 264).
ProbVectors(obj) == [1..obj.num_vars -> 0..PUnit]

\* The values a coordinate of mapping's output takes: tf.sigmoid lies strictly
\* between 0 and 1 (line 265).
SigmoidVals == 1..(PUnit - 1)

\* The params[0] set_params is called with; only MFBernoulli computes with it.
ParamInputs(obj) == IF obj.kind = "MFBernoulli" THEN ProbVectors(obj) ELSE {<<>>}

\* MFBernoulli.set_params with the last coordinate taken from all d coordinates.
MFBernoulli_set_params_all(obj, p0) ==
    LET d == Len(p0)
    IN  IF d > 1
        THEN [obj EXCEPT !.set = TRUE,
                         !.p = SubSeq(p0, 1, d - 1) \o <<PUnit - SumSeq(p0)>>]
        ELSE [obj EXCEPT !.set = TRUE, !.p = p0]

\* Lines 267-275.
MFBernoulli_set_params(obj, p0) ==
    LET d == Len(p0)
    IN  IF d > 1
        THEN [obj EXCEPT !.set = TRUE,
                         !.p = SubSeq(p0, 1, d - 1)
                               \o <<PUnit - SumSeq(SubSeq(p0, 1, d - 1))>>]
        ELSE [obj EXCEPT !.set = TRUE, !.p = p0]

\* set_params that also stores the count of free coordinates as num_params.
set_params_recount(obj, p0) ==
    CASE obj.kind = "MFBernoulli" ->
            Returned([MFBernoulli_set_params(obj, p0) EXCEPT !.num_params = Len(p0) - 1],
                     <<>>)
      [] obj.kind \in {"MFBeta", "MFGaussian", "PointMass"} ->
            Returned([obj EXCEPT !.set = TRUE], <<>>)
      [] OTHER -> Raised(obj, "AttributeError")

\* set_params(params): lines 267-275, 313-315, 355-357, 411-412; the other
\* classes define none.  p0 is params[0] of MFBernoulli.
set_params(obj, p0) ==
    CASE obj.kind = "MFBernoulli" -> Returned(MFBernoulli_set_params(obj, p0), <<>>)
      [] obj.kind \in {"MFBeta", "MFGaussian", "PointMass"} ->
            Returned([obj EXCEPT !.set = TRUE], <<>>)
      [] OTHER -> Raised(obj, "AttributeError")

\* sample_noise(size): lines 366-374 for MFGaussian, lines 70-85 for the other
\* Likelihood classes; the rest define none.
sample_noise(obj) ==
    CASE obj.kind = "MFGaussian" -> Returned(obj, <<"eps">>)
      [] obj.kind \in LikelihoodKinds -> Raised(obj, "NotImplementedError")
      [] OTHER -> Raised(obj, "AttributeError")

\* reparam(eps): lines 376-381 for MFGaussian (m and s are None until
\* set_params), lines 87-92 for the other Likelihood classes.
reparam(obj) ==
    CASE obj.kind = "MFGaussian" ->
            IF obj.set THEN Returned(obj, <<"m + eps * s">>) ELSE Raised(obj, "TypeError")
      [] obj.kind \in LikelihoodKinds -> Raised(obj, "NotImplementedError")
      [] OTHER -> Raised(obj, "AttributeError")

\* sample(size, sess): lines 282-289, 324-331, 193-200, 232-242; lines 94-116
\* for MFGaussian and PointMass; lines 147-156 for MFMixGaussian, which stops
\* at the first sub-family that fails.
sample(obj) ==
    CASE obj.kind \in {"MFBernoulli", "MFBeta"} ->
            IF obj.set THEN Returned(obj, <<"z">>) ELSE Raised(obj, "TypeError")
      [] obj.kind \in {"MFGaussian", "PointMass"} ->
            IF sample_noise(obj).outcome # "ok" THEN sample_noise(obj) ELSE reparam(obj)
      [] obj.kind \in {"MFDirichlet", "MFInvGamma"} -> Returned(obj, <<"z">>)
      [] OTHER ->
            IF ~obj.sub.gauss.set THEN Raised(obj, "TypeError")
            ELSE Raised(obj, "ValueError")

\* print_params(sess): lines 277-280, 317-322, 359-364, 414-417, 187-191,
\* 222-230; lines 142-145 for MFMixGaussian.
print_params(obj) ==
    CASE obj.kind \in LikelihoodKinds ->
            IF obj.set THEN Returned(obj, <<>>) ELSE Raised(obj, "TypeError")
      [] obj.kind \in {"MFDirichlet", "MFInvGamma"} -> Returned(obj, <<>>)
      [] OTHER ->
            IF obj.sub.gauss.set THEN Returned(obj, <<>>) ELSE Raised(obj, "TypeError")

\* x[i] on a tensor: a negative i is refused by a tensor library without
\* negative indexing (the one line 272 speaks of) and counted from the end by
\* one with it (neg_ok).
IndexFails(i, neg_ok) == i < 0 /\ ~neg_ok

LogProbTerm(obj, i) == [family |-> obj.kind, i |-> i]

\* log_prob_zi(i, z) of the classes with one block of coordinates: lines 291-296,
\* 333-338, 383-391, 202-209, 244-252; PointMass inherits lines 118-120.
simple_log_prob_zi(obj, i, neg_ok) ==
    IF obj.kind = "PointMass" THEN Raised(obj, "NotImplementedError")
    ELSE IF i >= obj.num_vars THEN Raised(obj, "raise")
    ELSE IF obj.kind = "MFGaussian" /\ ~obj.set THEN Raised(obj, "TypeError")
    ELSE IF IndexFails(i, neg_ok) THEN Raised(obj, "NegativeIndex")
    ELSE IF ~obj.set THEN Raised(obj, "TypeError")
    ELSE Returned(obj, <<LogProbTerm(obj, i)>>)

\* The branch tests of MFMixGaussian.log_prob_zi taken against num_vars of the
\* whole family.
MixBranches_all(obj, i) ==
    (IF i < obj.num_vars THEN <<"dirich">> ELSE <<>>)
    \o (IF i < obj.num_vars THEN <<"gauss">> ELSE <<>>)
    \o (IF i < obj.num_vars THEN <<"invgam">> ELSE <<>>)

\* Lines 162, 165, 168: the sub-families whose test i passes, in order.
MixBranches(obj, i) ==
    (IF i < obj.sub.dirich.num_vars THEN <<"dirich">> ELSE <<>>)
    \o (IF i < obj.sub.gauss.num_vars THEN <<"gauss">> ELSE <<>>)
    \o (IF i < obj.sub.invgam.num_vars THEN <<"invgam">> ELSE <<>>)

\* Lines 161-169: the branches are entered one after the other; the first
\* sub-family call that raises ends the call.
RECURSIVE MixRun(_, _, _, _, _, _)
MixRun(obj, todo, i, neg_ok, entered, terms) ==
    IF todo = <<>>
    THEN [obj |-> obj, outcome |-> "ok", ret |-> terms, branches |-> entered]
    ELSE LET r == simple_log_prob_zi(obj.sub[Head(todo)], i, neg_ok)
         IN  IF r.outcome # "ok"
             THEN [obj |-> obj, outcome |-> r.outcome, ret |-> <<>>,
                   branches |-> Append(entered, Head(todo))]
             ELSE MixRun(obj, Tail(todo), i, neg_ok,
                         Append(entered, Head(todo)), terms \o r.ret)

\* Lines 158-174.
MFMixGaussian_log_prob_zi(obj, i, neg_ok) ==
    LET r == MixRun(obj, MixBranches(obj, i), i, neg_ok, <<>>, <<>>)
    IN  IF r.outcome # "ok" THEN r
        ELSE IF i >= obj.num_vars THEN [r EXCEPT !.outcome = "raise", !.ret = <<>>]
        ELSE r

log_prob_zi(obj, i, neg_ok) ==
    IF obj.kind = "MFMixGaussian" THEN MFMixGaussian_log_prob_zi(obj, i, neg_ok)
    ELSE simple_log_prob_zi(obj, i, neg_ok)

\* The indices log_prob_zi is called with: below, in and above [0, num_vars).
IndexInputs(obj) == (-1)..(obj.num_vars + 1)

CallRec(method, i, r) ==
    [method |-> method, i |-> i, outcome |-> r.outcome, ret |-> r.ret,
     branches |-> r.branches]

FamInit ==
    /\ fam \in FamilyObjects
    /\ built = [num_vars |-> fam.num_vars, num_params |-> fam.num_params]
    /\ given = <<>>
    /\ last = CallRec("__init__", 0, Returned(fam, <<>>))

\* No family object is under study.
FamIdle ==
    /\ fam = <<>> /\ built = <<>> /\ given = <<>> /\ last = <<>>

DoMapping ==
    /\ fam' = mapping(fam).obj
    /\ last' = CallRec("mapping", 0, mapping(fam))
    /\ UNCHANGED <<built, given>>

DoSetParams(p0) ==
    /\ fam' = set_params(fam, p0).obj
    /\ last' = CallRec("set_params", 0, set_params(fam, p0))
    /\ given' = IF fam.kind = "MFBernoulli" THEN p0 ELSE given
    /\ UNCHANGED built

\* External code binds the parameters of the Gaussian sub-family of a mixed
\* family: q.gauss.set_params(q.gauss.mapping(x)).
DoSetGaussParams ==
    /\ fam.kind = "MFMixGaussian"
    /\ fam' = [fam EXCEPT !.sub.gauss = set_params(fam.sub.gauss, <<>>).obj]
    /\ last' = CallRec("gauss.set_params", 0, Returned(fam, <<>>))
    /\ UNCHANGED <<built, given>>

DoSample ==
    /\ fam' = sample(fam).obj
    /\ last' = CallRec("sample", 0, sample(fam))
    /\ UNCHANGED <<built, given>>

DoSampleNoise ==
    /\ fam' = sample_noise(fam).obj
    /\ last' = CallRec("sample_noise", 0, sample_noise(fam))
    /\ UNCHANGED <<built, given>>

DoReparam ==
    /\ fam' = reparam(fam).obj
    /\ last' = CallRec("reparam", 0, reparam(fam))
    /\ UNCHANGED <<built, given>>

DoPrintParams ==
    /\ fam' = print_params(fam).obj
    /\ last' = CallRec("print_params", 0, print_params(fam))
    /\ UNCHANGED <<built, given>>

DoLogProbZi(i, neg_ok) ==
    /\ fam' = log_prob_zi(fam, i, neg_ok).obj
    /\ last' = CallRec("log_prob_zi", i, log_prob_zi(fam, i, neg_ok))
    /\ UNCHANGED <<built, given>>

\* ------------------------------------------------------------------ actions
\* No call in progress: the locals of wake_sleep hold nothing.
NoLocals ==
    /\ latent_vars = <<>> /\ data = <<>> /\ n_samples = 0
    /\ phase_q = "sleep" /\ scale = <<>>
    /\ s = 0 /\ base_scope = ""
    /\ p_log_prob = <<>> /\ q_log_prob = <<>>
    /\ q_terms = <<>> /\ p_terms = <<>>
    /\ copies = <<>> /\ reg_seen = <<>>
    /\ var_list = <<>> /\ q_vars = <<>> /\ p_vars = <<>>
    /\ loss_p = None /\ loss_q = None /\ reg_penalty = 0
    /\ grads_and_vars = <<>>

\* A fresh graph: no name given out, no regularisation term registered.
WsInit ==
    /\ pc = "idle" /\ calls = 0
    /\ names_in_use = <<>>
    /\ reg_losses = <<>>
    /\ scopes = <<>>
    /\ NoLocals

\* A graph on which other code has already named an operation q_sample_1.
WsInitNamed ==
    /\ pc = "idle" /\ calls = 0
    /\ names_in_use \in {<<>>, [k \in {"q_sample_1"} |-> 1]}
    /\ reg_losses = <<>>
    /\ scopes = <<>>
    /\ NoLocals

\* Model or family construction registers a regularisation term on the graph.
RegisterLoss(r) ==
    /\ pc = "idle"
    /\ Len(reg_losses) < MaxRegs
    /\ reg_losses' = Append(reg_losses, r)
    /\ UNCHANGED <<pc, calls, names_in_use, latent_vars, data, n_samples,
                   phase_q, scale, s, base_scope, p_log_prob, q_log_prob,
                   q_terms, p_terms, copies, scopes, reg_seen, var_list,
                   q_vars, p_vars, loss_p, loss_q, reg_penalty, grads_and_vars>>

\* Lines 71-79: the arguments, the accumulators, the base scope.
Call(lv, dt, n, ph, sc) ==
    /\ pc = "idle"
    /\ calls' = calls + 1
    /\ latent_vars' = lv /\ data' = dt /\ n_samples' = n
    /\ phase_q' = ph /\ scale' = sc
    /\ p_log_prob' = [i \in 1..n |-> 0]
    /\ q_log_prob' = [i \in 1..n |-> 0]
    /\ q_terms' = [i \in 1..n |-> <<>>]
    /\ p_terms' = [i \in 1..n |-> <<>>]
    /\ base_scope' = unique_name(names_in_use, "inference") \o "/"
    /\ names_in_use' = names_after(names_in_use, "inference")
    /\ s' = 0 /\ copies' = <<>>
    /\ reg_seen' = reg_losses
    /\ var_list' = <<>> /\ q_vars' = <<>> /\ p_vars' = <<>>
    /\ loss_p' = None /\ loss_q' = None /\ reg_penalty' = 0
    /\ grads_and_vars' = <<>>
    /\ pc' = "loop"
    /\ UNCHANGED <<reg_losses, scopes>>

\* Lines 80-128: iteration s of the loop.
Iterate ==
    /\ pc = "loop"
    /\ s < n_samples
    /\ LET i       == s + 1
           e       == i
           names_q == names_after(names_in_use, "q_sample")
           scope_q == QScope(names_in_use, base_scope)
           sleep   == phase_q = "sleep"
           scope_p == PScope(names_q, base_scope)
           qt == QSampleTerms(latent_vars, data, scale, phase_q, scope_q, e)
                 \o SleepTerms(latent_vars, data, scale, phase_q, scope_q, scope_p, e)
           pt == PTerms(latent_vars, data, scale, scope_q, e)
       IN  /\ names_in_use' = IF sleep THEN names_after(names_q, "p_sample") ELSE names_q
           /\ q_terms' = [q_terms EXCEPT ![i] = qt]
           /\ p_terms' = [p_terms EXCEPT ![i] = pt]
           /\ q_log_prob' = [q_log_prob EXCEPT ![i] = @ + SumTerms(qt)]
           /\ p_log_prob' = [p_log_prob EXCEPT ![i] = @ + SumTerms(pt)]
           /\ copies' = copies \o IterCopies(latent_vars, data, phase_q,
                                             scope_q, scope_p, i)
           /\ scopes' = scopes
                  \o <<ScopeRec(calls, i, "q", scope_q)>>
                  \o (IF sleep THEN <<ScopeRec(calls, i, "p", scope_p)>>
                      ELSE <<>>)
    /\ s' = s + 1
    /\ UNCHANGED <<pc, calls, reg_losses, latent_vars, data, n_samples, phase_q,
                   scale, base_scope, reg_seen, var_list, q_vars, p_vars,
                   loss_p, loss_q, reg_penalty, grads_and_vars>>

\* Lines 130-152: the means, the penalty, the losses, the split of var_list
\* and the gradients.  var_list (line 75) is read here for the first time.
Finish(vl) ==
    /\ pc = "loop"
    /\ s = n_samples
    /\ LET penalty == SumSeq(reg_losses)
           lp == Loss("loss_p", reduce_mean(p_log_prob), penalty,
                      LossDeps(p_terms, reg_losses))
           lq == Loss("loss_q", reduce_mean(q_log_prob), penalty,
                      LossDeps(q_terms, reg_losses))
           qv == QVars(vl, latent_vars)
           pv == PVars(vl, qv)
       IN  /\ reg_penalty' = penalty
           /\ loss_p' = lp /\ loss_q' = lq
           /\ var_list' = vl
           /\ q_vars' = qv /\ p_vars' = pv
           /\ grads_and_vars' = GradsAndVars(lq, lp, qv, pv)
    /\ pc' = "done"
    /\ UNCHANGED <<calls, names_in_use, reg_losses, latent_vars, data, n_samples,
                   phase_q, scale, s, base_scope, p_log_prob, q_log_prob,
                   q_terms, p_terms, copies, scopes, reg_seen>>

\* Line 152: wake_sleep has returned; its locals are gone, the graph stays.
Return ==
    /\ pc = "done"
    /\ pc' = "idle"
    /\ latent_vars' = <<>> /\ data' = <<>> /\ n_samples' = 0
    /\ phase_q' = "sleep" /\ scale' = <<>>
    /\ s' = 0 /\ base_scope' = ""
    /\ p_log_prob' = <<>> /\ q_log_prob' = <<>>
    /\ q_terms' = <<>> /\ p_terms' = <<>>
    /\ copies' = <<>> /\ reg_seen' = <<>>
    /\ var_list' = <<>> /\ q_vars' = <<>> /\ p_vars' = <<>>
    /\ loss_p' = None /\ loss_q' = None /\ reg_penalty' = 0
    /\ grads_and_vars' = <<>>
    /\ UNCHANGED <<calls, names_in_use, reg_losses, scopes>>

\* var_list = None (line 15): every trainable variable of the graph.
DefaultVarList ==
    [j \in 1..MaxLatents |-> Lam(j)] \o <<Tied, Theta, W>>

SampleCounts == 1..MaxSamples

\* Every latent binding, data binding, sample count, phase and scale map.
WsCall ==
    /\ pc = "idle"
    /\ \E lv \in LatentInputs, dt \in DataInputs, n \in SampleCounts, ph \in Phases :
          \E sc \in ScaleInputs(lv, dt) : Call(lv, dt, n, ph, sc)

\* The same with scale left to its default, the empty map.
WsCallUnscaled ==
    /\ pc = "idle"
    /\ \E lv \in LatentInputs, dt \in DataInputs, n \in SampleCounts, ph \in Phases :
          Call(lv, dt, n, ph, <<>>)

\* The same with n_samples left to its default, 1.
WsCallOneSample ==
    /\ pc = "idle"
    /\ \E lv \in LatentInputs, dt \in DataInputs, ph \in Phases :
          Call(lv, dt, 1, ph, <<>>)

vars == <<wsVars, famVars>>

\* One wake_sleep call on a fresh graph, from every sampling input, var_list
\* left to its default.
Init == WsInit /\ FamIdle
Next ==
    \/ calls = 0 /\ WsCall /\ UNCHANGED famVars
    \/ Iterate /\ UNCHANGED famVars
    \/ Finish(DefaultVarList) /\ UNCHANGED famVars
    \/ pc = "idle" /\ calls = 0 /\ (\E r \in RegVals : RegisterLoss(r))
          /\ UNCHANGED famVars
    \/ Return /\ UNCHANGED famVars
Spec == Init /\ [][Next]_vars

\* One wake_sleep call on a fresh graph, from every var_list.
NextSplit ==
    \/ calls = 0 /\ WsCallOneSample /\ UNCHANGED famVars
    \/ Iterate /\ UNCHANGED famVars
    \/ pc = "loop" /\ s = n_samples /\ (\E vl \in VarListInputs : Finish(vl))
          /\ UNCHANGED famVars
    \/ pc = "idle" /\ calls = 0 /\ (\E r \in RegVals : RegisterLoss(r))
          /\ UNCHANGED famVars
    \/ Return /\ UNCHANGED famVars
SpecSplit == Init /\ [][NextSplit]_vars

\* Up to MaxCalls wake_sleep calls, one after the other, on one graph.
InitGraph == WsInitNamed /\ FamIdle
NextGraph ==
    \/ calls < MaxCalls /\ WsCallUnscaled /\ UNCHANGED famVars
    \/ Iterate /\ UNCHANGED famVars
    \/ Finish(DefaultVarList) /\ UNCHANGED famVars
    \/ Return /\ UNCHANGED famVars
SpecGraph == InitGraph /\ [][NextGraph]_vars

\* One family object, from every constructor call, and its methods called in
\* any order.
InitFam == WsInit /\ FamInit
NextFam ==
    \/ DoMapping /\ UNCHANGED wsVars
    \/ (\E p0 \in ParamInputs(fam) : DoSetParams(p0)) /\ UNCHANGED wsVars
    \/ DoSetGaussParams /\ UNCHANGED wsVars
    \/ DoSample /\ UNCHANGED wsVars
    \/ DoSampleNoise /\ UNCHANGED wsVars
    \/ DoReparam /\ UNCHANGED wsVars
    \/ DoPrintParams /\ UNCHANGED wsVars
    \/ (\E i \in IndexInputs(fam), neg_ok \in BOOLEAN : DoLogProbZi(i, neg_ok))
          /\ UNCHANGED wsVars
SpecFam == InitFam /\ [][NextFam]_vars

\* ------------------------------------------------------------------ claims
Done == pc = "done"

\* The approximating distributions of this call.
QRvs == {Q(latent_vars[j]) : j \in DOMAIN latent_vars}

\* v leads to at least one approximating distribution of this call.
FeedsQ(v) == \E qz \in QRvs : qz \in Reach({v}, {})

\* How often v occurs in the sequence q.
Count(q, v) == Cardinality({i \in DOMAIN q : q[i] = v})

\* C1: when wake_sleep has returned, no variable is in both q_vars and p_vars,
\* every variable of var_list is in exactly one of them, and q_vars holds the
\* variables that lead to at least one approximating distribution.
C1_Split ==
    Done =>
        /\ Range(q_vars) \cap Range(p_vars) = {}
        /\ Range(q_vars) \cup Range(p_vars) = Range(var_list)
        /\ \A v \in Range(var_list) :
              /\ v \in Range(q_vars) <=> FeedsQ(v)
              /\ v \in Range(p_vars) <=> ~FeedsQ(v)

C1_Witness ==
    /\ Done /\ Len(var_list) = MaxVarList
    /\ q_vars # <<>> /\ p_vars # <<>>
    /\ \E v \in Range(p_vars) : v[1] = "lambda"

\* The variables of the returned pairs, and their gradients, in order.
PairVars  == [j \in DOMAIN grads_and_vars |-> grads_and_vars[j][2]]
PairGrads == [j \in DOMAIN grads_and_vars |-> grads_and_vars[j][1]]

\* v leads to a node the loss was computed from.
HasPath(v, loss) == \E n \in loss.deps : n = v \/ n \in Reach({v}, {})

\* C2: the returned list holds one pair per entry of var_list; the pairs of
\* the variables that feed q come first, then the others, each group in the
\* order of var_list; a q pair holds the derivative of loss_q, a p pair that of
\* loss_p, and a variable no path leads from to its loss has a null gradient.
C2_Pairs ==
    Done =>
        /\ Len(grads_and_vars) = Len(var_list)
        /\ \A v \in TrainableVars : Count(PairVars, v) = Count(var_list, v)
        /\ \A i, j \in DOMAIN grads_and_vars :
              i < j /\ ~FeedsQ(PairVars[i]) => ~FeedsQ(PairVars[j])
        /\ FilterSeq(PairVars, {v \in TrainableVars : FeedsQ(v)})
              = FilterSeq(var_list, {v \in TrainableVars : FeedsQ(v)})
        /\ FilterSeq(PairVars, {v \in TrainableVars : ~FeedsQ(v)})
              = FilterSeq(var_list, {v \in TrainableVars : ~FeedsQ(v)})
        /\ \A j \in DOMAIN grads_and_vars :
              LET v    == PairVars[j]
                  loss == IF FeedsQ(v) THEN loss_q ELSE loss_p
              IN  PairGrads[j] = IF HasPath(v, loss) THEN <<"d", loss.name, v>>
                                 ELSE None

C2_Witness ==
    /\ Done /\ Len(grads_and_vars) = MaxVarList
    /\ \E i, j \in DOMAIN grads_and_vars :
          /\ i < j
          /\ PairGrads[i] = <<"d", "loss_q", PairVars[i]>>
          /\ PairGrads[j] = None
          /\ ~HasPath(PairVars[j], loss_q) /\ ~HasPath(PairVars[j], loss_p)

\* The copies of this call that draw a latent variable from the prior.
PriorSampleCopies ==
    {i \in DOMAIN copies : copies[i].what[1] = "z" /\ copies[i].swap = "none"}

\* C4: in a call with phase_q = 'wake' no prior-sample copy of a latent
\* variable is made and no p_sample scope is opened; after each iteration
\* q_log_prob holds exactly one term per latent variable, each added in the
\* q-sample sub-phase; and the split of var_list is computed all the same.
C4_Wake ==
    phase_q = "wake" /\ pc \in {"loop", "done"} =>
        /\ PriorSampleCopies = {}
        /\ \A i \in DOMAIN copies : copies[i].sub = "q"
        /\ \A i \in DOMAIN scopes : scopes[i].sub = "q"
        /\ \A i \in 1..s :
              /\ Len(q_terms[i]) = Len(latent_vars)
              /\ \A k \in Range(latent_vars) :
                    Cardinality({j \in DOMAIN q_terms[i] :
                                    q_terms[i][j].dist = Q(k)}) = 1
              /\ \A j \in DOMAIN q_terms[i] : q_terms[i][j].sub = "q"
              /\ q_log_prob[i] = SumTerms(q_terms[i])
        /\ Done => /\ Len(q_vars) + Len(p_vars) = Len(var_list)
                   /\ \A v \in Range(var_list) : v \in Range(q_vars) <=> FeedsQ(v)

C4_Witness ==
    /\ Done /\ phase_q = "wake"
    /\ n_samples = MaxSamples /\ Len(latent_vars) = MaxLatents
    /\ q_vars # <<>> /\ p_vars # <<>>
    /\ q_log_prob[n_samples] # 0

\* The sum of all terms recorded in a history of per-sample terms.
RECURSIVE SumAllTerms(_)
SumAllTerms(ts) == IF ts = <<>> THEN 0 ELSE SumTerms(Head(ts)) + SumAllTerms(Tail(ts))

\* C5: loss_p is minus the equal-weight mean of the n_samples per-sample sums
\* of p terms plus the penalty, loss_q the same of the q terms; the penalty
\* is the sum of the registered terms, the same in both; and the call leaves
\* the registered terms as it found them.
C5_Losses ==
    /\ pc \in {"loop", "done"} => reg_losses = reg_seen
    /\ Done =>
        /\ reg_penalty = SumSeq(reg_seen)
        /\ loss_p.den > 0 /\ loss_q.den > 0
        /\ loss_p.num * n_samples
              = (-SumAllTerms(p_terms) + n_samples * reg_penalty) * loss_p.den
        /\ loss_q.num * n_samples
              = (-SumAllTerms(q_terms) + n_samples * reg_penalty) * loss_q.den

C5_Witness ==
    /\ Done /\ n_samples = MaxSamples
    /\ reg_penalty > 0
    /\ SumAllTerms(p_terms) # 0 /\ SumAllTerms(q_terms) # 0
    /\ p_log_prob[1] # p_log_prob[n_samples]

\* C8: every term the sleep sub-phase adds to q_log_prob is multiplied by the
\* scale of the latent variable its distribution approximates.
C8_SleepScale ==
    \A i \in DOMAIN q_terms : \A j \in DOMAIN q_terms[i] :
        q_terms[i][j].sub = "p" =>
            q_terms[i][j].mult = ScaleGet(scale, Z(q_terms[i][j].dist[2]))

\* The names unique_name can have returned for a sub-phase so far.
SubNames ==
    {NameOf(stem, i) : stem \in {"q_sample", "p_sample"},
                       i \in 0..(2 * MaxCalls * MaxSamples + 1)}

\* C10: no two sub-phases of the calls made on the graph have the same scope;
\* every copy of the current call is made under the scope of its own
\* sub-phase and iteration, and that scope is the base scope of the call
\* followed by a name.
C10_Scopes ==
    /\ \A a, b \in DOMAIN scopes : a # b => scopes[a].scope # scopes[b].scope
    /\ \A i \in DOMAIN copies :
          /\ \E a \in DOMAIN scopes :
                /\ scopes[a].call = calls /\ scopes[a].s = copies[i].s
                /\ scopes[a].sub = copies[i].sub
                /\ scopes[a].scope = copies[i].scope
          /\ \E nm \in SubNames : copies[i].scope = base_scope \o nm

C10_Witness ==
    /\ Done /\ calls = MaxCalls /\ phase_q = "sleep" /\ n_samples = MaxSamples
    /\ Len(scopes) >= 2 * MaxSamples + 2
    /\ copies # <<>>
    /\ "q_sample_1" \in DOMAIN names_in_use /\ names_in_use["q_sample_1"] = 1


\* ---------------------------------------------------------------- families
LogProbCalled == last.method = "log_prob_zi"
ValidIndex    == 0 <= last.i /\ last.i < fam.num_vars

\* C3: for every family, log_prob_zi(i, z) raises an error whenever i < 0 or
\* i >= num_vars, and raises no index error when 0 <= i < num_vars.
C3_IndexCheck ==
    LogProbCalled =>
        /\ (last.i < 0 \/ last.i >= fam.num_vars) => last.outcome # "ok"
        /\ ValidIndex => last.outcome \notin {"raise", "NegativeIndex"}

\* C6: after any sequence of method calls num_vars and num_params have the
\* values set at construction; for the mixed family they are the sums of the
\* three sub-families' num_vars and num_params.
C6_Dims ==
    /\ fam.num_vars = built.num_vars
    /\ fam.num_params = built.num_params
    /\ fam.kind = "MFMixGaussian" =>
          /\ fam.num_vars = fam.sub.dirich.num_vars + fam.sub.gauss.num_vars
                            + fam.sub.invgam.num_vars
          /\ fam.num_params = fam.sub.dirich.num_params + fam.sub.gauss.num_params
                              + fam.sub.invgam.num_params

\* A Bernoulli object on which set_params and then another method ran, the
\* latter returning.
C6_Witness ==
    /\ fam.kind = "MFBernoulli" /\ fam.set /\ fam.num_vars > 1
    /\ LogProbCalled /\ last.outcome = "ok"
    /\ fam.num_params = fam.num_vars

\* C7: for MFBernoulli with num_vars = d > 1, after set_params(params) the d
\* stored probabilities sum to 1, the first d-1 being those of params[0] and the
\* last one minus their sum; with d = 1 the one coordinate is params[0] itself.
C7_Simplex ==
    (fam.kind = "MFBernoulli" /\ fam.set) =>
        LET d == fam.num_vars
        IN  IF d > 1
            THEN /\ Len(fam.p) = d
                 /\ SumSeq(fam.p) = PUnit
                 /\ \A j \in 1..(d - 1) : fam.p[j] = given[j]
                 /\ fam.p[d] = PUnit - SumSeq(SubSeq(given, 1, d - 1))
            ELSE fam.p = given

\* set_params has just replaced the last of three coordinates.
C7_Witness ==
    /\ fam.kind = "MFBernoulli" /\ last.method = "set_params"
    /\ fam.num_vars = 3 /\ Len(given) = 3
    /\ fam.p[3] # given[3]
    /\ fam.p[1] > 0 /\ fam.p[2] > 0

MixCalled == fam.kind = "MFMixGaussian" /\ LogProbCalled /\ ValidIndex
Entered(b) == \E j \in 1..Len(last.branches) : last.branches[j] = b
AllThree  == <<"dirich", "gauss", "invgam">>

\* C9 as stated: for the mixed family and every valid index i, log_prob_zi
\* takes all three branches and returns the sum of the three sub-families'
\* log_prob_zi(i, z).
C9_AllBranches ==
    MixCalled =>
        /\ last.branches = AllThree
        /\ last.ret = [j \in 1..3 |-> LogProbTerm(fam.sub[AllThree[j]], last.i)]

\* C9, amended: for a valid index i the Dirichlet branch is entered exactly
\* when i < K, the Gaussian branch exactly when i < K*D, and the InverseGamma
\* branch exactly when i < K*D and the Gaussian sub-family's call returned (it
\* fails while that sub-family's parameters are unset); a call that returns
\* gives the sum of the entered sub-families' log_prob_zi(i, z), which is the
\* empty sum for K*D <= i < num_vars.
C9_Branches ==
    MixCalled =>
        LET K  == fam.K
            KD == (fam.num_vars - fam.K) \div 2
        IN  /\ Entered("dirich") <=> last.i < K
            /\ Entered("gauss") <=> last.i < KD
            /\ Entered("invgam") <=> (last.i < KD /\ fam.sub.gauss.set)
            /\ last.outcome = "ok" =>
                  last.ret = [j \in 1..Len(last.branches) |->
                                 LogProbTerm(fam.sub[last.branches[j]], last.i)]
            /\ last.i >= KD => last.outcome = "ok" /\ last.ret = <<>>
            /\ last.outcome = "ok" <=> (last.i >= KD \/ fam.sub.gauss.set)

\* A call that returns with an index past the Dirichlet block: two branches.
C9_Witness ==
    /\ MixCalled /\ last.outcome = "ok"
    /\ last.i >= fam.K
    /\ last.branches = <<"gauss", "invgam">>


\* set_params was last handed an output of mapping.
FromMapping == \A j \in 1..Len(given) : given[j] \in SigmoidVals

\* C11: for MFBernoulli with any num_vars = d >= 1, after set_params is given
\* the output of mapping (every coordinate strictly between 0 and 1), each of
\* the d stored probabilities, the derived last one included, lies in [0, 1].
C11_ProbRange ==
    (fam.kind = "MFBernoulli" /\ fam.set /\ FromMapping) =>
        \A j \in 1..Len(fam.p) : 0 <= fam.p[j] /\ fam.p[j] <= PUnit

====
